---- MODULE Spec2Model ----
(***************************************************************************)
(* Model of pkg/validation/providers.go: the provider-validation pipeline  *)
(* of the authentication gateway.  validateProviders walks the provider    *)
(* list, threads a registry of seen ids through validateProvider and       *)
(* concatenates the messages of the per-type validators.                   *)
(***************************************************************************)
EXTENDS Integers, Sequences, FiniteSets, TLC

VARIABLES
    o,            \* *options.Options: [Providers, SkipProviderButton]
    environ,      \* process environment: value of AZURE_FEDERATED_TOKEN_FILE
    pc,           \* position inside validateProviders
    idx,          \* index of the next provider the range loop hands out
    msgs,         \* msgs of validateProviders
    providerIDs,  \* providerIDs map (set of keys)
    trace,        \* calls made so far: validators entered, os probes issued
    result        \* the returned []string, once pc = "done"

vars == <<o, environ, pc, idx, msgs, providerIDs, trace, result>>

----------------------------------------------------------------------------
(* Bounds and input domains *)

MaxProviders == 3

IDs == {"", "a", "b"}
ClientIDs == {"", "x"}
Types == {"google", "entra-id", "login.gov", "oidc"}
PrivateKeyJWT == "private-key-JWT"
Methods == {PrivateKeyJWT, "client-secret"}
GroupLists == {<<>>, <<"g1">>}
AdminEmails == {"", "e@x.com"}
SAPaths == {"", "/etc/sa.json", "/etc/absent.json"}
EnvValues == {"", "/var/token", "/var/locked", "/var/absent"}

\* the file system the probes look at
ExistingFiles == {"/etc/sa.json", "/var/token", "/var/locked"}
ReadableFiles == {"/etc/sa.json", "/var/token"}

Stat(path) == path \in ExistingFiles          \* TRUE iff os.Stat returns err == nil
ReadFile(path) == path \in ReadableFiles      \* TRUE iff os.ReadFile returns err == nil

GoogleConfigs ==
    [Groups : GroupLists, AdminEmail : AdminEmails, ServiceAccountJSON : SAPaths,
     UseApplicationDefaultCredentials : BOOLEAN]

AllProviders ==
    [ID : IDs, ClientID : ClientIDs, Type : Types,
     AuthenticationConfig : [Method : Methods],
     GoogleConfig : GoogleConfigs,
     MicrosoftEntraIDConfig : [FederatedTokenAuth : BOOLEAN]]

NoGoogle ==
    [Groups |-> <<>>, AdminEmail |-> "", ServiceAccountJSON |-> "",
     UseApplicationDefaultCredentials |-> FALSE]

OnlyAdminEmail == [NoGoogle EXCEPT !.AdminEmail = "e@x.com"]

\* the providers the lists of several providers are built from: every id and
\* client id, with a type that yields no, two or one type-specific message
ListProviders ==
    {p \in AllProviders :
        /\ p.AuthenticationConfig.Method = "client-secret"
        /\ \/ p.Type = "oidc" /\ p.GoogleConfig = NoGoogle
                 /\ ~p.MicrosoftEntraIDConfig.FederatedTokenAuth
           \/ p.Type = "google" /\ p.GoogleConfig = OnlyAdminEmail
                 /\ ~p.MicrosoftEntraIDConfig.FederatedTokenAuth
           \/ p.Type = "entra-id" /\ p.GoogleConfig = NoGoogle
                 /\ p.MicrosoftEntraIDConfig.FederatedTokenAuth}

SeqsUpTo(S, n) == UNION {[1..k -> S] : k \in 0..n}

----------------------------------------------------------------------------
(* Messages *)

MsgNoProvider == "at least one provider has to be defined"
MsgSkipButton == "SkipProviderButton and multiple providers are mutually exclusive"
MsgEmptyID == "provider has empty id: ids are required for all providers"
MsgDuplicateID(id) ==
    "multiple providers found with id " \o id \o ": provider ids must be unique"
MsgClientID == "provider missing setting: client-id"
MsgGoogleGroup == "missing setting: google-group"
MsgGoogleAdminEmail == "missing setting: google-admin-email"
MsgGoogleCreds ==
    "missing setting: google-service-account-json or google-use-application-default-credentials"
MsgGoogleFileNotFound(path) == "Google credentials file not found: " \o path
MsgGoogleBoth ==
    "invalid setting: can't use both google-service-account-json and google-use-application-default-credentials"
MsgEntraEnv ==
    "entra federated token authentication is enabled, but AZURE_FEDERATED_TOKEN_FILE variable is not set, check your workload identity configuration."
MsgEntraRead == "could not read entra federated token file"
MsgLoginGov == "login.gov configuration not using private key jwt"

\* append msg to s when cond holds
AppendIf(s, cond, msg) == IF cond THEN Append(s, msg) ELSE s

----------------------------------------------------------------------------
(* Per-type validators: each returns its messages and the calls it made *)

\* validateGoogleConfig without the way out for an untouched block
validateGoogleConfigNoEscape(provider) ==
    LET g == provider.GoogleConfig
        hasGoogleGroups == Len(g.Groups) >= 1
        hasAdminEmail == g.AdminEmail /= ""
        hasSAJSON == g.ServiceAccountJSON /= ""
        useADC == g.UseApplicationDefaultCredentials
        entered == <<<<"validateGoogleConfig", provider.ID>>>>
        m1 == AppendIf(<<>>, ~hasGoogleGroups, MsgGoogleGroup)
        m2 == AppendIf(m1, ~hasAdminEmail, MsgGoogleAdminEmail)
        found == Stat(g.ServiceAccountJSON)
        m3 == IF ~useADC
              THEN IF ~hasSAJSON THEN Append(m2, MsgGoogleCreds)
                   ELSE IF ~found
                        THEN Append(m2, MsgGoogleFileNotFound(g.ServiceAccountJSON))
                        ELSE m2
              ELSE IF hasSAJSON THEN Append(m2, MsgGoogleBoth)
                   ELSE m2
    IN  [msgs |-> m3,
         trace |-> Append(entered, <<"os.Stat", g.ServiceAccountJSON>>)]

\* validateGoogleConfig acting on the probe's error before looking at the
\* default-credentials flag
validateGoogleConfigProbeFirst(provider) ==
    LET g == provider.GoogleConfig
        hasGoogleGroups == Len(g.Groups) >= 1
        hasAdminEmail == g.AdminEmail /= ""
        hasSAJSON == g.ServiceAccountJSON /= ""
        useADC == g.UseApplicationDefaultCredentials
        entered == <<<<"validateGoogleConfig", provider.ID>>>>
    IN  IF ~hasGoogleGroups /\ ~hasAdminEmail /\ ~hasSAJSON /\ ~useADC
        THEN [msgs |-> <<>>, trace |-> entered]
        ELSE LET m1 == AppendIf(<<>>, ~hasGoogleGroups, MsgGoogleGroup)
                 m2 == AppendIf(m1, ~hasAdminEmail, MsgGoogleAdminEmail)
                 found == Stat(g.ServiceAccountJSON)
                 m3 == IF hasSAJSON /\ ~found
                       THEN Append(m2, MsgGoogleFileNotFound(g.ServiceAccountJSON))
                       ELSE IF ~useADC
                            THEN AppendIf(m2, ~hasSAJSON, MsgGoogleCreds)
                            ELSE AppendIf(m2, hasSAJSON, MsgGoogleBoth)
             IN  [msgs |-> m3,
                  trace |-> Append(entered, <<"os.Stat", g.ServiceAccountJSON>>)]

validateGoogleConfig(provider) ==
    LET g == provider.GoogleConfig
        hasGoogleGroups == Len(g.Groups) >= 1
        hasAdminEmail == g.AdminEmail /= ""
        hasSAJSON == g.ServiceAccountJSON /= ""
        useADC == g.UseApplicationDefaultCredentials
        entered == <<<<"validateGoogleConfig", provider.ID>>>>
    IN  IF ~hasGoogleGroups /\ ~hasAdminEmail /\ ~hasSAJSON /\ ~useADC
        THEN [msgs |-> <<>>, trace |-> entered]
        ELSE LET m1 == AppendIf(<<>>, ~hasGoogleGroups, MsgGoogleGroup)
                 m2 == AppendIf(m1, ~hasAdminEmail, MsgGoogleAdminEmail)
                 found == Stat(g.ServiceAccountJSON)
                 m3 == IF ~useADC
                       THEN IF ~hasSAJSON THEN Append(m2, MsgGoogleCreds)
                            ELSE IF ~found
                                 THEN Append(m2, MsgGoogleFileNotFound(g.ServiceAccountJSON))
                                 ELSE m2
                       ELSE IF hasSAJSON THEN Append(m2, MsgGoogleBoth)
                            ELSE m2
             IN  [msgs |-> m3,
                  trace |-> Append(entered, <<"os.Stat", g.ServiceAccountJSON>>)]

\* validateEntraConfig that goes on to the file read with an unset variable
validateEntraConfigNoReturn(provider) ==
    LET entered == <<<<"validateEntraConfig", provider.ID>>>>
    IN  IF provider.MicrosoftEntraIDConfig.FederatedTokenAuth
        THEN LET federatedTokenPath == environ
                 t1 == Append(entered, <<"os.Getenv", "AZURE_FEDERATED_TOKEN_FILE">>)
                 m1 == AppendIf(<<>>, federatedTokenPath = "", MsgEntraEnv)
             IN  [msgs |-> AppendIf(m1, ~ReadFile(federatedTokenPath), MsgEntraRead),
                  trace |-> Append(t1, <<"os.ReadFile", federatedTokenPath>>)]
        ELSE [msgs |-> <<>>, trace |-> entered]

validateEntraConfig(provider) ==
    LET entered == <<<<"validateEntraConfig", provider.ID>>>>
    IN  IF provider.MicrosoftEntraIDConfig.FederatedTokenAuth
        THEN LET federatedTokenPath == environ
                 t1 == Append(entered, <<"os.Getenv", "AZURE_FEDERATED_TOKEN_FILE">>)
             IN  IF federatedTokenPath = ""
                 THEN [msgs |-> <<MsgEntraEnv>>, trace |-> t1]
                 ELSE [msgs |-> AppendIf(<<>>, ~ReadFile(federatedTokenPath), MsgEntraRead),
                       trace |-> Append(t1, <<"os.ReadFile", federatedTokenPath>>)]
        ELSE [msgs |-> <<>>, trace |-> entered]

\* validateGovLoginConfig that forgets to look at the method
validateGovLoginConfigTypeOnly(provider) ==
    [msgs |-> AppendIf(<<>>, provider.Type = "login.gov", MsgLoginGov),
     trace |-> <<<<"validateGovLoginConfig", provider.ID>>>>]

validateGovLoginConfig(provider) ==
    [msgs |-> AppendIf(<<>>,
                       provider.Type = "login.gov"
                           /\ provider.AuthenticationConfig.Method /= PrivateKeyJWT,
                       MsgLoginGov),
     trace |-> <<<<"validateGovLoginConfig", provider.ID>>>>]

\* The authentication-method validator: its body is not part of providers.go.
\* The call site hands it provider.AuthenticationConfig; the rule it is
\* documented to enforce also reads the provider type, so the operator
\* receives the provider the configuration belongs to.
validateAuthenticationConfig(provider) ==
    [msgs |-> AppendIf(<<>>,
                       provider.Type = "login.gov"
                           /\ provider.AuthenticationConfig.Method /= PrivateKeyJWT,
                       MsgLoginGov),
     trace |-> <<<<"validateAuthenticationConfig", provider.ID>>>>]

----------------------------------------------------------------------------
(* validateProvider: messages, the registry afterwards and the calls made *)

Skipped(provider) == [msgs |-> <<>>, trace |-> <<>>]

\* validateProvider with the id inserted before the membership test
validateProviderInsertFirst(provider, ids) ==
    LET m1 == AppendIf(<<>>, provider.ID = "", MsgEmptyID)
        ids2 == ids \cup {provider.ID}
        m2 == AppendIf(m1, provider.ID \in ids2, MsgDuplicateID(provider.ID))
        m3 == AppendIf(m2, provider.ClientID = "", MsgClientID)
        auth == validateAuthenticationConfig(provider)
        goog == IF provider.Type = "google"
                THEN validateGoogleConfig(provider) ELSE Skipped(provider)
        entra == IF provider.Type = "entra-id"
                 THEN validateEntraConfig(provider) ELSE Skipped(provider)
        gov == IF provider.Type = "login.gov"
               THEN validateGovLoginConfig(provider) ELSE Skipped(provider)
    IN  [msgs |-> m3 \o auth.msgs \o goog.msgs \o entra.msgs \o gov.msgs,
         providerIDs |-> ids2,
         trace |-> <<<<"validateProvider", provider.ID>>>> \o auth.trace \o goog.trace
                       \o entra.trace \o gov.trace]

\* validateProvider that leaves the empty id out of the registry
validateProviderSkipEmptyInsert(provider, ids) ==
    LET m1 == AppendIf(<<>>, provider.ID = "", MsgEmptyID)
        m2 == AppendIf(m1, provider.ID \in ids, MsgDuplicateID(provider.ID))
        ids2 == IF provider.ID = "" THEN ids ELSE ids \cup {provider.ID}
        m3 == AppendIf(m2, provider.ClientID = "", MsgClientID)
        auth == validateAuthenticationConfig(provider)
        goog == IF provider.Type = "google"
                THEN validateGoogleConfig(provider) ELSE Skipped(provider)
        entra == IF provider.Type = "entra-id"
                 THEN validateEntraConfig(provider) ELSE Skipped(provider)
        gov == IF provider.Type = "login.gov"
               THEN validateGovLoginConfig(provider) ELSE Skipped(provider)
    IN  [msgs |-> m3 \o auth.msgs \o goog.msgs \o entra.msgs \o gov.msgs,
         providerIDs |-> ids2,
         trace |-> <<<<"validateProvider", provider.ID>>>> \o auth.trace \o goog.trace
                       \o entra.trace \o gov.trace]

\* validateProvider that checks the client id only when the id is set
validateProviderElseClientID(provider, ids) ==
    LET m1 == AppendIf(<<>>, provider.ID = "", MsgEmptyID)
        m2 == AppendIf(m1, provider.ID \in ids, MsgDuplicateID(provider.ID))
        ids2 == ids \cup {provider.ID}
        m3 == AppendIf(m2, provider.ID /= "" /\ provider.ClientID = "", MsgClientID)
        auth == validateAuthenticationConfig(provider)
        goog == IF provider.Type = "google"
                THEN validateGoogleConfig(provider) ELSE Skipped(provider)
        entra == IF provider.Type = "entra-id"
                 THEN validateEntraConfig(provider) ELSE Skipped(provider)
        gov == IF provider.Type = "login.gov"
               THEN validateGovLoginConfig(provider) ELSE Skipped(provider)
    IN  [msgs |-> m3 \o auth.msgs \o goog.msgs \o entra.msgs \o gov.msgs,
         providerIDs |-> ids2,
         trace |-> <<<<"validateProvider", provider.ID>>>> \o auth.trace \o goog.trace
                       \o entra.trace \o gov.trace]

\* validateProvider that reaches the authentication-method validator only
\* from the login.gov arm
validateProviderAuthInGovArm(provider, ids) ==
    LET m1 == AppendIf(<<>>, provider.ID = "", MsgEmptyID)
        m2 == AppendIf(m1, provider.ID \in ids, MsgDuplicateID(provider.ID))
        ids2 == ids \cup {provider.ID}
        m3 == AppendIf(m2, provider.ClientID = "", MsgClientID)
        auth == IF provider.Type = "login.gov"
                THEN validateAuthenticationConfig(provider) ELSE Skipped(provider)
        goog == IF provider.Type = "google"
                THEN validateGoogleConfig(provider) ELSE Skipped(provider)
        entra == IF provider.Type = "entra-id"
                 THEN validateEntraConfig(provider) ELSE Skipped(provider)
        gov == IF provider.Type = "login.gov"
               THEN validateGovLoginConfig(provider) ELSE Skipped(provider)
    IN  [msgs |-> m3 \o auth.msgs \o goog.msgs \o entra.msgs \o gov.msgs,
         providerIDs |-> ids2,
         trace |-> <<<<"validateProvider", provider.ID>>>> \o auth.trace \o goog.trace
                       \o entra.trace \o gov.trace]

validateProvider(provider, ids) ==
    LET m1 == AppendIf(<<>>, provider.ID = "", MsgEmptyID)
        m2 == AppendIf(m1, provider.ID \in ids, MsgDuplicateID(provider.ID))
        ids2 == ids \cup {provider.ID}
        m3 == AppendIf(m2, provider.ClientID = "", MsgClientID)
        auth == validateAuthenticationConfig(provider)
        goog == IF provider.Type = "google"
                THEN validateGoogleConfig(provider) ELSE Skipped(provider)
        entra == IF provider.Type = "entra-id"
                 THEN validateEntraConfig(provider) ELSE Skipped(provider)
        gov == IF provider.Type = "login.gov"
               THEN validateGovLoginConfig(provider) ELSE Skipped(provider)
    IN  [msgs |-> m3 \o auth.msgs \o goog.msgs \o entra.msgs \o gov.msgs,
         providerIDs |-> ids2,
         trace |-> <<<<"validateProvider", provider.ID>>>> \o auth.trace \o goog.trace
                       \o entra.trace \o gov.trace]

----------------------------------------------------------------------------
(* validateProviders, one action per step of its body *)

\* the list-level checks with the chooser rule firing from one provider on
BeginSkipFromOne ==
    /\ pc = "start"
    /\ msgs' = AppendIf(AppendIf(<<>>, Len(o.Providers) = 0, MsgNoProvider),
                        o.SkipProviderButton /\ Len(o.Providers) >= 1, MsgSkipButton)
    /\ providerIDs' = {}
    /\ idx' = 1
    /\ pc' = "loop"
    /\ UNCHANGED <<o, environ, trace, result>>

\* lines 13-23: the list-level checks and the fresh registry
Begin ==
    /\ pc = "start"
    /\ msgs' = AppendIf(AppendIf(<<>>, Len(o.Providers) = 0, MsgNoProvider),
                        o.SkipProviderButton /\ Len(o.Providers) > 1, MsgSkipButton)
    /\ providerIDs' = {}
    /\ idx' = 1
    /\ pc' = "loop"
    /\ UNCHANGED <<o, environ, trace, result>>

\* the loop giving up on the remaining providers once a problem was found
ValidateNextStopOnProblem ==
    /\ pc = "loop"
    /\ idx <= Len(o.Providers)
    /\ IF Len(msgs) > 0
       THEN /\ idx' = Len(o.Providers) + 1
            /\ UNCHANGED <<msgs, providerIDs, trace>>
       ELSE /\ LET r == validateProvider(o.Providers[idx], providerIDs)
               IN  /\ msgs' = msgs \o r.msgs
                   /\ providerIDs' = r.providerIDs
                   /\ trace' = trace \o r.trace
            /\ idx' = idx + 1
    /\ UNCHANGED <<o, environ, pc, result>>

\* lines 25-27: one iteration of the range loop
ValidateNext ==
    /\ pc = "loop"
    /\ idx <= Len(o.Providers)
    /\ LET r == validateProvider(o.Providers[idx], providerIDs)
       IN  /\ msgs' = msgs \o r.msgs
           /\ providerIDs' = r.providerIDs
           /\ trace' = trace \o r.trace
    /\ idx' = idx + 1
    /\ UNCHANGED <<o, environ, pc, result>>

\* line 29: the loop is exhausted, the messages are returned
Return ==
    /\ pc = "loop"
    /\ idx > Len(o.Providers)
    /\ result' = msgs
    /\ pc' = "done"
    /\ UNCHANGED <<o, environ, idx, msgs, providerIDs, trace>>

Next == Begin \/ ValidateNext \/ Return

InitCall ==
    /\ pc = "start"
    /\ idx = 0
    /\ msgs = <<>>
    /\ providerIDs = {}
    /\ trace = <<>>
    /\ result = <<>>

\* a call on a list of up to MaxProviders providers
InitList ==
    /\ o \in [Providers : SeqsUpTo(ListProviders, MaxProviders),
              SkipProviderButton : BOOLEAN]
    /\ environ = ""
    /\ InitCall

\* a call on a single provider, every field and the environment varied
InitOne ==
    /\ o \in [Providers : {<<p>> : p \in AllProviders}, SkipProviderButton : BOOLEAN]
    /\ environ \in EnvValues
    /\ InitCall

Init == InitList \/ InitOne

Spec == Init /\ [][Next]_vars

SpecOne == InitOne /\ [][Next]_vars

----------------------------------------------------------------------------
(* Vocabulary of the properties *)

RECURSIVE Count(_, _)
Count(s, m) ==
    IF s = <<>> THEN 0 ELSE (IF Head(s) = m THEN 1 ELSE 0) + Count(Tail(s), m)

Range(s) == {s[i] : i \in 1..Len(s)}

RECURSIVE Flatten(_)
Flatten(ss) == IF ss = <<>> THEN <<>> ELSE Head(ss) \o Flatten(Tail(ss))

N == Len(o.Providers)
P(i) == o.Providers[i]

\* the providers the loop has been through
Seen == IF pc = "start" THEN 0 ELSE idx - 1

\* the messages accumulated so far, the returned list once the call is over
Out == IF pc = "done" THEN result ELSE msgs

\* how many of the first n providers carry id
Occ(id, n) == Cardinality({j \in 1..n : P(j).ID = id})

\* the entries of the trace made by the function or probe called name
Calls(name) == SelectSeq(trace, LAMBDA e : e[1] = name)

----------------------------------------------------------------------------
(* Properties of the list-level pass (specification Spec) *)

\* C1: a non-empty id carried by k >= 2 of the providers validated so far has
\* produced exactly k-1 duplicate-id messages naming it, and an id carried by
\* at most one of them has produced none; holding after every iteration, the
\* first carrier adds none and every later carrier adds exactly one.
C1_DuplicateMessages ==
    \A id \in IDs \ {""} :
        LET k == Occ(id, Seen)
        IN  Count(Out, MsgDuplicateID(id)) = IF k >= 2 THEN k - 1 ELSE 0

C1_Witness ==
    /\ pc = "done"
    /\ N = 3
    /\ P(1).ID = "a" /\ P(2).ID = "b" /\ P(3).ID = "a"
    /\ Count(result, MsgDuplicateID("a")) = 1
    /\ Count(result, MsgDuplicateID("b")) = 0

\* C2: the returned list holds the mutual-exclusivity message exactly when
\* SkipProviderButton is set and more than one provider is configured,
\* whatever the providers themselves contain.
C2_SkipButtonMessage ==
    pc = "done" =>
        (MsgSkipButton \in Range(result) <=> (o.SkipProviderButton /\ N >= 2))

C2_Witness ==
    /\ pc = "done"
    /\ o.SkipProviderButton
    /\ N = 2
    /\ P(1).ID = "" /\ P(1).ClientID = "" /\ P(2).Type = "google"
    /\ MsgSkipButton \in Range(result)

\* C8: whatever the provider types, the empty-id message has been emitted once
\* per validated provider with an empty id and the client-id message once per
\* validated provider with an empty client id; neither check hides the other
\* nor is hidden by the duplicate-id check.
C8_EmptyFieldMessages ==
    /\ Count(Out, MsgEmptyID) = Cardinality({j \in 1..Seen : P(j).ID = ""})
    /\ Count(Out, MsgClientID) = Cardinality({j \in 1..Seen : P(j).ClientID = ""})

C8_Witness ==
    /\ pc = "done"
    /\ N = 2
    /\ P(1).ID = "" /\ P(1).ClientID = "" /\ P(1).Type = "entra-id"
    /\ P(2).ID = "" /\ P(2).ClientID = "" /\ P(2).Type = "oidc"
    /\ Count(result, MsgEmptyID) = 2
    /\ Count(result, MsgClientID) = 2
    /\ MsgDuplicateID("") \in Range(result)

\* the messages of the i-th provider, stated from the list alone
ListLevelMsgs ==
    AppendIf(AppendIf(<<>>, N = 0, MsgNoProvider),
             o.SkipProviderButton /\ N > 1, MsgSkipButton)

TypeMsgs(p) ==
    validateAuthenticationConfig(p).msgs
        \o (IF p.Type = "google" THEN validateGoogleConfig(p).msgs ELSE <<>>)
        \o (IF p.Type = "entra-id" THEN validateEntraConfig(p).msgs ELSE <<>>)
        \o (IF p.Type = "login.gov" THEN validateGovLoginConfig(p).msgs ELSE <<>>)

ProviderMsgs(i) ==
    AppendIf(AppendIf(AppendIf(<<>>, P(i).ID = "", MsgEmptyID),
                      \E j \in 1..(i - 1) : P(j).ID = P(i).ID, MsgDuplicateID(P(i).ID)),
             P(i).ClientID = "", MsgClientID)
        \o TypeMsgs(P(i))

\* C9: the pass never stops at a problem: after every step the messages are
\* the list-level messages followed by the messages of the providers gone
\* through, in list order, each provider validated exactly once; the call
\* returns only when every provider was gone through.
C9_AllProvidersInOrder ==
    /\ pc /= "start" =>
          /\ Out = ListLevelMsgs \o Flatten([i \in 1..Seen |-> ProviderMsgs(i)])
          /\ Calls("validateProvider")
                = [i \in 1..Seen |-> <<"validateProvider", P(i).ID>>]
    /\ pc = "done" => Seen = N

C9_Witness ==
    /\ pc = "done"
    /\ N = 3
    /\ o.SkipProviderButton
    /\ P(1).ID = "" /\ P(1).ClientID = ""
    /\ P(2).Type = "google" /\ P(2).ID = "a" /\ P(2).ClientID = "x"
    /\ P(3).Type = "entra-id" /\ P(3).ID = "a" /\ P(3).ClientID = "x"
    /\ Len(result) = 7
    /\ SubSeq(result, 4, 7)
          = <<MsgGoogleGroup, MsgGoogleCreds, MsgDuplicateID("a"), MsgEntraEnv>>

\* C10: the empty id enters the registry like any other id: k providers with
\* an empty id have produced k empty-id messages and, from the second on, one
\* duplicate-id message each; the registry holds exactly the ids of the
\* providers gone through.
C10_EmptyIDRegistered ==
    LET k == Occ("", Seen)
    IN  /\ Count(Out, MsgEmptyID) = k
        /\ Count(Out, MsgDuplicateID("")) = (IF k >= 2 THEN k - 1 ELSE 0)
        /\ providerIDs = {P(j).ID : j \in 1..Seen}

C10_Witness ==
    /\ pc = "done"
    /\ N = 3
    /\ \A j \in 1..3 : P(j).ID = ""
    /\ Count(result, MsgEmptyID) = 3
    /\ Count(result, MsgDuplicateID("")) = 2
    /\ providerIDs = {""}

----------------------------------------------------------------------------
(* Properties of the validation of one provider (specification SpecOne) *)

GoogleMsgSet ==
    {MsgGoogleGroup, MsgGoogleAdminEmail, MsgGoogleCreds, MsgGoogleBoth}
        \cup {MsgGoogleFileNotFound(path) : path \in SAPaths}

\* the messages of the returned list that come from the google validator
GoogleOut == SelectSeq(result, LAMBDA m : m \in GoogleMsgSet)

EntraOut == SelectSeq(result, LAMBDA m : m \in {MsgEntraEnv, MsgEntraRead})

HasGroups == Len(P(1).GoogleConfig.Groups) >= 1
HasAdminEmail == P(1).GoogleConfig.AdminEmail /= ""
HasSAJSON == P(1).GoogleConfig.ServiceAccountJSON /= ""
UseADC == P(1).GoogleConfig.UseApplicationDefaultCredentials
SAJSON == P(1).GoogleConfig.ServiceAccountJSON

\* C3: for a google provider, an untouched block (no groups, no admin email,
\* no service-account path, default credentials off) yields no google message
\* and no probe; once any of the four is set, the missing-groups message is
\* returned exactly when the groups are missing, the missing-admin-email
\* message exactly when the admin email is missing, and the missing-credentials
\* message exactly when neither credential strategy is chosen; the provider
\* {id a, client id x, only the admin email set} returns exactly the
\* missing-group message followed by the missing-credentials message.
C3_GoogleRequiredSettings ==
    (pc = "done" /\ P(1).Type = "google") =>
        /\ (~HasGroups /\ ~HasAdminEmail /\ ~HasSAJSON /\ ~UseADC)
              => (GoogleOut = <<>> /\ Calls("os.Stat") = <<>>)
        /\ (HasGroups \/ HasAdminEmail \/ HasSAJSON \/ UseADC)
              => /\ Count(result, MsgGoogleGroup) = (IF HasGroups THEN 0 ELSE 1)
                 /\ Count(result, MsgGoogleAdminEmail) = (IF HasAdminEmail THEN 0 ELSE 1)
                 /\ Count(result, MsgGoogleCreds)
                       = (IF HasSAJSON \/ UseADC THEN 0 ELSE 1)
        /\ (P(1).ID = "a" /\ P(1).ClientID = "x" /\ P(1).GoogleConfig = OnlyAdminEmail)
              => result = <<MsgGoogleGroup, MsgGoogleCreds>>

C3_Witness ==
    /\ pc = "done"
    /\ P(1).Type = "google"
    /\ HasGroups /\ ~HasAdminEmail /\ ~HasSAJSON /\ ~UseADC
    /\ GoogleOut = <<MsgGoogleAdminEmail, MsgGoogleCreds>>

\* C4: for a google provider whose service-account path names no existing
\* file: with default credentials off the file-not-found message naming the
\* path is returned once, and it is the only google message when groups and
\* admin email are set; with default credentials on the can't-use-both
\* message is returned in its place and the file-not-found message never is,
\* although the path was probed.
C4_GoogleCredentialFile ==
    (pc = "done" /\ P(1).Type = "google" /\ HasSAJSON /\ ~Stat(SAJSON)) =>
        /\ Calls("os.Stat") = <<<<"os.Stat", SAJSON>>>>
        /\ MsgGoogleCreds \notin Range(result)
        /\ ~UseADC =>
              /\ Count(result, MsgGoogleFileNotFound(SAJSON)) = 1
              /\ MsgGoogleBoth \notin Range(result)
              /\ (HasGroups /\ HasAdminEmail)
                    => GoogleOut = <<MsgGoogleFileNotFound(SAJSON)>>
        /\ UseADC =>
              /\ Count(result, MsgGoogleBoth) = 1
              /\ MsgGoogleFileNotFound(SAJSON) \notin Range(result)
              /\ (HasGroups /\ HasAdminEmail) => GoogleOut = <<MsgGoogleBoth>>

C4_Witness ==
    /\ pc = "done"
    /\ P(1).Type = "google"
    /\ SAJSON = "/etc/absent.json"
    /\ UseADC /\ HasGroups /\ HasAdminEmail
    /\ GoogleOut = <<MsgGoogleBoth>>
    /\ Calls("os.Stat") = <<<<"os.Stat", "/etc/absent.json">>>>

\* C5: for an entra-id provider: with federated token auth on and
\* AZURE_FEDERATED_TOKEN_FILE empty, the workload-identity hint is the only
\* entra message and no file is read; with the variable set, the file it names
\* is read once and the could-not-read message is returned exactly when the
\* read fails; with federated token auth off nothing is looked up, nothing is
\* read and no entra message is returned.
C5_EntraFederatedToken ==
    (pc = "done" /\ P(1).Type = "entra-id") =>
        IF P(1).MicrosoftEntraIDConfig.FederatedTokenAuth
        THEN /\ Len(Calls("os.Getenv")) = 1
             /\ environ = "" => (EntraOut = <<MsgEntraEnv>> /\ Calls("os.ReadFile") = <<>>)
             /\ environ /= "" =>
                   /\ Calls("os.ReadFile") = <<<<"os.ReadFile", environ>>>>
                   /\ EntraOut = (IF ReadFile(environ) THEN <<>> ELSE <<MsgEntraRead>>)
        ELSE /\ Calls("os.Getenv") = <<>>
             /\ Calls("os.ReadFile") = <<>>
             /\ EntraOut = <<>>

C5_Witness ==
    /\ pc = "done"
    /\ P(1).Type = "entra-id"
    /\ P(1).MicrosoftEntraIDConfig.FederatedTokenAuth
    /\ environ = ""
    /\ EntraOut = <<MsgEntraEnv>>
    /\ Calls("os.ReadFile") = <<>>

\* C6: for a login.gov provider the private-key-jwt message is returned when
\* the authentication method is anything but private key JWT, and with
\* private key JWT no such message is returned by any validator.
C6_LoginGovMethod ==
    (pc = "done" /\ P(1).Type = "login.gov") =>
        /\ Len(Calls("validateGovLoginConfig")) = 1
        /\ MsgLoginGov \in Range(result)
              <=> P(1).AuthenticationConfig.Method /= PrivateKeyJWT

C6_Witness ==
    /\ pc = "done"
    /\ P(1).Type = "login.gov"
    /\ P(1).AuthenticationConfig.Method = PrivateKeyJWT
    /\ P(1).ID = "a" /\ P(1).ClientID = "x"
    /\ result = <<>>

====
